---- MODULE Spec2Model ----
(***************************************************************************)
(* The ROI annotation editor (ROIEditor, src/unnamed/part_001): its React  *)
(* state, its three pointer handlers, deleteROI, the view controls, and    *)
(* the geometry helper calculateLongestDistance; and the part of the case  *)
(* view around it (AnalysisView, src/components/AnalysisView.tsx): the     *)
(* image upload, the step that shows the editor, and its confirm callback. *)
(*                                                                         *)
(* Numbers.  Annotation coordinates are percentages of the container box;  *)
(* the pointer positions used here map to whole percentages, so a point is *)
(* a pair of integers.  zoom is kept in halves (zoom = 2 means 1.0, 8      *)
(* means 4.0) because the buttons step it by 0.5.                          *)
(***************************************************************************)
EXTENDS Integers, Sequences, FiniteSets, TLC

VARIABLES
    rois,           \* useState<ROIAnnotation[]>            (line 18)
    tool,           \* 'select' | 'pencil' | 'rect'         (line 19)
    isDrawing,      \*                                      (line 20)
    currentPoints,  \*                                      (line 21)
    brightness,     \*                                      (line 24)
    contrast,       \*                                      (line 25)
    invert,         \*                                      (line 26)
    zoom,           \* in halves                            (line 27)
    pan,            \*                                      (line 28)
    dragState,      \*                                      (line 30)
    isPanning,      \*                                      (line 31)
    panStart,       \*                                      (line 32)
    rect,           \* containerRef's bounding client rect  (line 45)
    crashed,        \* an updater threw: the component is unmounted
    ev,             \* history: the last event handled
    g,              \* history: the gesture begun by the last pointer-down
    steps,          \* history: number of events handled
    distIn,         \* argument of a direct call of calculateLongestDistance
    distOut,        \* its result
    mapIn,          \* arguments of a direct call of getMousePos
    mapOut,         \* its result
    imageSrc,       \* prop: the image shown               (line 16)
    initialROIs,    \* prop: the proposed ROIs             (line 16)
    step,           \* AnalysisView: wizard step           (AnalysisView 25)
    isProcessing,   \* AnalysisView: diagnosis in flight   (AnalysisView 26)
    doctorConfirmedRois,  \* AnalysisView                  (AnalysisView 39)
    onConfirmCalls, \* history: number of onConfirm invocations
    reading,        \* AnalysisView: FileReaders in flight (AnalysisView 55)
    closure         \* the state values the attached handlers were built
                    \* with, where renders are steps of their own

vars == <<rois, tool, isDrawing, currentPoints, brightness, contrast, invert,
          zoom, pan, dragState, isPanning, panStart, rect, crashed, ev, g,
          steps, distIn, distOut, mapIn, mapOut, imageSrc, initialROIs, step,
          isProcessing, doctorConfirmedRois, onConfirmCalls, reading,
          closure>>

editorVars == <<rois, tool, isDrawing, currentPoints, brightness, contrast,
                invert, zoom, pan, dragState, isPanning, panStart, rect,
                crashed, ev, g, steps>>

editorVarsButEv == <<rois, tool, isDrawing, currentPoints, brightness,
                     contrast, invert, zoom, pan, dragState, isPanning,
                     panStart, rect, crashed, g, steps>>

callVars == <<distIn, distOut, mapIn, mapOut>>

propVars == <<imageSrc, initialROIs>>

appVars == <<step, isProcessing, doctorConfirmedRois, onConfirmCalls, reading>>

renderVars == <<closure>>

-----------------------------------------------------------------------------
(* Bounds of the model *)

MaxEvents == 4
MaxRois == 3
MaxPts == 3
MaxConfirms == 1

(* Program constants *)

ZoomMin == 2
ZoomMax == 8
HitNumerator == 3
Undef == 0 - 1

Pt(x, y) == [x |-> x, y |-> y]

Abs(n) == IF n < 0 THEN 0 - n ELSE n

Min(a, b) == IF a < b THEN a ELSE b

Max(a, b) == IF a > b THEN a ELSE b

Tools == {"select", "pencil", "rect"}

Ids == {"a", "b"}

HuValues == {30, 89}

(* The images the case view can show. *)
Images == {"scanA", "scanB"}

(* useState<string | null>(null): no image has been read yet. *)
NoImage == "none"

(* Image spots (in percent of the container) the pointer is placed on. *)
Spots == {Pt(10, 10), Pt(12, 8), Pt(50, 40)}

(* The bounding box of the container on the screen. *)
ContainerRect == [left |-> 20, top |-> 10, width |-> 200, height |-> 100]

(* The pointer events the container can receive with box r: positions      *)
(* inside the box, primary or middle button, shift held or not.            *)
MouseEvents(r) ==
    { [clientX |-> r.left + (s.x * r.width) \div 100,
       clientY |-> r.top + (s.y * r.height) \div 100,
       button |-> m[1], shiftKey |-> m[2]] :
         s \in Spots, m \in {<<0, FALSE>>, <<0, TRUE>>, <<1, FALSE>>} }

-----------------------------------------------------------------------------
(* ROIAnnotation *)

Meas(len, hu) == [present |-> TRUE, length |-> len, huValue |-> hu]

NoMeas == [present |-> FALSE, length |-> Undef, huValue |-> Undef]

ROI(id, type, points, label, confirmed, meas) ==
    [id |-> id, type |-> type, points |-> points, label |-> label,
     isConfirmed |-> confirmed, measurements |-> meas]

(* Lists the caller can supply as initialROIs: the case analysis passes    *)
(* the "rois" array of the consulted model's JSON answer without checking  *)
(* ids, point counts, coordinates or measurements.                         *)
InitialLists ==
    { << >>,
      << ROI("a", "rect", <<Pt(10, 10), Pt(50, 40)>>, "Lesion A", FALSE,
             Meas(10, 40)),
         ROI("b", "rect", <<Pt(12, 8), Pt(50, 40), Pt(10, 10)>>, "Lesion B",
             FALSE, Meas(15, Undef)) >>,
      << ROI("b", "rect", <<Pt(50, 140)>>, "Lesion A", FALSE, NoMeas) >>,
      << ROI("a", "rect", <<Pt(10, 10), Pt(50, 40), Pt(12, 8)>>, "Lesion A",
             FALSE, Meas(10, 40)),
         ROI("a", "rect", <<Pt(12, 8)>>, "Lesion A", TRUE, Meas(15, 40)) >> }

-----------------------------------------------------------------------------
(* Geometry *)

(* Math.floor(Math.sqrt(m) * 3.5) for an integer m >= 0: the largest n     *)
(* with n <= 3.5 * sqrt(m), that is with 4 n^2 <= 49 m; found by bisection *)
(* between lo (which satisfies it) and hi (which does not).                *)
RECURSIVE FloorScaledSqrtIn(_, _, _)
FloorScaledSqrtIn(m, lo, hi) ==
    IF hi - lo <= 1 THEN lo
    ELSE LET mid == (lo + hi) \div 2
         IN  IF 4 * mid * mid <= 49 * m
             THEN FloorScaledSqrtIn(m, mid, hi)
             ELSE FloorScaledSqrtIn(m, lo, mid)

FloorScaledSqrt(m) == FloorScaledSqrtIn(m, 0, 4 * m + 1)

DistSq(p, q) == (p.x - q.x) * (p.x - q.x) + (p.y - q.y) * (p.y - q.y)

(* The loop comparing only each point with its successor. *)
RECURSIVE MaxDistSqNeighbours(_, _, _, _)
MaxDistSqNeighbours(points, i, j, maxDistSq) ==
    IF j > Len(points) THEN maxDistSq
    ELSE LET dSq == DistSq(points[i], points[j])
         IN  MaxDistSqNeighbours(points, i + 1, j + 1,
                                 IF dSq > maxDistSq THEN dSq ELSE maxDistSq)

(* The double loop of calculateLongestDistance: i < j over the indices.    *)
RECURSIVE MaxDistSqLoop(_, _, _, _)
MaxDistSqLoop(points, i, j, maxDistSq) ==
    IF i > Len(points) THEN maxDistSq
    ELSE IF j > Len(points) THEN MaxDistSqLoop(points, i + 1, i + 2, maxDistSq)
    ELSE LET dSq == DistSq(points[i], points[j])
         IN  MaxDistSqLoop(points, i, j + 1,
                           IF dSq > maxDistSq THEN dSq ELSE maxDistSq)

calculateLongestDistance(points) ==
    FloorScaledSqrt(MaxDistSqLoop(points, 1, 2, 0))

-----------------------------------------------------------------------------
(* View transform *)

(* ((client - origin) / extent) * 100 *)
Percent(client, origin, extent) == ((client - origin) * 100) \div extent

(* A mapping that undoes the layer's scale: what a zoom-aware version of   *)
(* getMousePos would divide by.                                            *)
getMousePosUnscaled(e) ==
    Pt((2 * Percent(e.clientX, rect.left, rect.width)) \div zoom,
       (2 * Percent(e.clientY, rect.top, rect.height)) \div zoom)

getMousePos(e) ==
    Pt(Percent(e.clientX, rect.left, rect.width),
       Percent(e.clientY, rect.top, rect.height))

(* The numbers a division by a zero extent brings in: a finite number, or *)
(* NaN (sign 0), +Infinity (sign 1), -Infinity (sign -1).                   *)
Finite(v) == [finite |-> TRUE, val |-> v]

NotFinite(sign) == [finite |-> FALSE, val |-> sign]

(* ((client - origin) / extent) * 100 in IEEE-754 arithmetic, extent >= 0: *)
(* 0/0 is NaN, and a non-zero offset over 0 is an infinity of its sign.    *)
PercentFloat(client, origin, extent) ==
    IF extent # 0 THEN Finite(Percent(client, origin, extent))
    ELSE IF client = origin THEN NotFinite(0)
    ELSE IF client > origin THEN NotFinite(1)
    ELSE NotFinite(0 - 1)

(* getMousePos for any container: box.attached is false when               *)
(* containerRef.current is null (if (!rect) return { x: 0, y: 0 }).        *)
getMousePosOf(e, box) ==
    IF ~box.attached
    THEN [x |-> Finite(0), y |-> Finite(0)]
    ELSE [x |-> PercentFloat(e.clientX, box.left, box.width),
          y |-> PercentFloat(e.clientY, box.top, box.height)]

(* The transform layer fills the container and is drawn with               *)
(* transform-origin top left and scale(zoom) translate(pan.x px, pan.y px): *)
(* a layer point l is shown at container offset zoom * (l + pan).  Twice    *)
(* the container offset at which the image spot q (in percent) is drawn:    *)
LayerOffset2(q) ==
    Pt(zoom * ((q.x * rect.width) \div 100 + pan.x),
       zoom * ((q.y * rect.height) \div 100 + pan.y))

(* The pointer event placed on the drawn image spot q. *)
RenderedAt(q) ==
    [clientX |-> rect.left + LayerOffset2(q).x \div 2,
     clientY |-> rect.top + LayerOffset2(q).y \div 2,
     button |-> 0, shiftKey |-> FALSE]

(* The spot is drawn on a whole pixel inside the container's box. *)
OnScreen(q) ==
    /\ LayerOffset2(q).x % 2 = 0
    /\ LayerOffset2(q).y % 2 = 0
    /\ LayerOffset2(q).x \div 2 \in 0 .. rect.width
    /\ LayerOffset2(q).y \div 2 \in 0 .. rect.height

-----------------------------------------------------------------------------
(* History records *)

NoDrag == [active |-> FALSE, roiId |-> "", pointIndex |-> 0]

(* No direct call of getMousePos has been made. *)
NoCall == [called |-> FALSE]

Event(kind, pos, id) == [kind |-> kind, pos |-> pos, id |-> id]

NoGesture ==
    [branch |-> "none", tool |-> "select", A |-> Pt(0, 0), B |-> Pt(0, 0),
     moves |-> 0, idle |-> TRUE, toolChanged |-> FALSE,
     interleaved |-> FALSE, ups |-> 0, pan0 |-> Pt(0, 0)]

(* The gesture record after an event that is no pointer event. *)
Interleave(t) ==
    IF g.ups > 0 \/ g.branch = "none" THEN g
    ELSE [g EXCEPT !.interleaved = TRUE,
                   !.toolChanged = (g.toolChanged \/ t # tool)]

(* The state values a render hands to the handlers it creates (the        *)
(* handlers are closures of the component function, lines 61-187).        *)
Snapshot ==
    [rois |-> rois, tool |-> tool, isDrawing |-> isDrawing,
     currentPoints |-> currentPoints, zoom |-> zoom, pan |-> pan,
     dragState |-> dragState, isPanning |-> isPanning,
     panStart |-> panStart]

-----------------------------------------------------------------------------
(* Initial state: the useState initialisers of lines 18-32. *)

Init ==
    /\ imageSrc = "scanA"
    /\ initialROIs \in InitialLists
    /\ rois = initialROIs
    /\ tool = "select"
    /\ isDrawing = FALSE
    /\ currentPoints = << >>
    /\ brightness = 100
    /\ contrast = 100
    /\ invert = FALSE
    /\ zoom = 2
    /\ pan = Pt(0, 0)
    /\ dragState = NoDrag
    /\ isPanning = FALSE
    /\ panStart = Pt(0, 0)
    /\ rect = ContainerRect
    /\ crashed = FALSE
    /\ ev = Event("none", Pt(0, 0), "")
    /\ g = NoGesture
    /\ steps = 0
    /\ distIn = << >>
    /\ distOut = 0
    /\ mapIn = NoCall
    /\ mapOut = NoCall
    /\ step = 2
    /\ isProcessing = FALSE
    /\ doctorConfirmedRois = << >>
    /\ onConfirmCalls = 0
    /\ reading = {}
    /\ closure = Snapshot

(* The editor is on the screen: the component is mounted (the case view   *)
(* shows it in step 2 once it has an image) and not covered by the         *)
(* processing overlay.                                                     *)
Shown == ~crashed /\ step = 2 /\ imageSrc # NoImage /\ ~isProcessing

(* An event can be handled while the editor is shown. *)
Mounted == Shown /\ steps < MaxEvents

-----------------------------------------------------------------------------
(* handleMouseDown *)

PanModifier(e) == e.button = 1 \/ (tool = "select" /\ e.shiftKey)

(* The test with <= in place of <. *)
NearInclusive(p, pos) ==
    /\ Abs(p.x - pos.x) * zoom <= 2 * HitNumerator
    /\ Abs(p.y - pos.y) * zoom <= 2 * HitNumerator

(* Math.abs(p.x - x) < 3 / zoom && Math.abs(p.y - y) < 3 / zoom, with zoom  *)
(* in halves: |d| < 3 / (zoom / 2)  iff  |d| * zoom < 6.                    *)
Near(p, pos) ==
    /\ Abs(p.x - pos.x) * zoom < 2 * HitNumerator
    /\ Abs(p.y - pos.y) * zoom < 2 * HitNumerator

(* The vertices the two nested loops accept, as <<ROI position, index>>. *)
Hits(pos) ==
    { h \in UNION { {i} \X (0 .. Len(rois[i].points) - 1) :
                       i \in 1 .. Len(rois) } :
        Near(rois[h[1]].points[h[2] + 1], pos) }

(* The loops return at the first one: ROI order, then point order. *)
FirstHit(pos) ==
    CHOOSE h \in Hits(pos) :
        \A k \in Hits(pos) : h[1] < k[1] \/ (h[1] = k[1] /\ h[2] <= k[2])

(* An anchor that forgets the pan offset of the moment. *)
PanAnchorAbsolute(e) == Pt(e.clientX, e.clientY)

(* setPanStart({ x: e.clientX - pan.x, y: e.clientY - pan.y }) *)
PanAnchor(e) == Pt(e.clientX - pan.x, e.clientY - pan.y)

DownBranch(e) ==
    IF PanModifier(e) THEN "pan"
    ELSE IF tool = "select"
         THEN IF Hits(getMousePos(e)) # {} THEN "drag" ELSE "miss"
         ELSE "draw"

handleMouseDown(e) ==
    /\ Mounted
    /\ IF PanModifier(e)
       THEN /\ isPanning' = TRUE
            /\ panStart' = PanAnchor(e)
            /\ UNCHANGED <<dragState, isDrawing, currentPoints>>
       ELSE IF tool = "select"
       THEN /\ dragState' =
                 IF Hits(getMousePos(e)) # {}
                 THEN [active |-> TRUE,
                       roiId |-> rois[FirstHit(getMousePos(e))[1]].id,
                       pointIndex |-> FirstHit(getMousePos(e))[2]]
                 ELSE dragState
            /\ UNCHANGED <<isPanning, panStart, isDrawing, currentPoints>>
       ELSE /\ isDrawing' = TRUE
            /\ currentPoints' = <<getMousePos(e)>>
            /\ UNCHANGED <<isPanning, panStart, dragState>>
    /\ ev' = Event("down", getMousePos(e), "")
    /\ g' = [branch |-> DownBranch(e), tool |-> tool, A |-> getMousePos(e),
             B |-> getMousePos(e), moves |-> 0,
             idle |-> ~isPanning /\ ~dragState.active,
             toolChanged |-> FALSE, interleaved |-> FALSE, ups |-> 0,
             pan0 |-> pan]
    /\ steps' = steps + 1
    /\ UNCHANGED <<rois, tool, brightness, contrast, invert, zoom, pan, rect,
                   crashed, callVars, renderVars, propVars,
                   appVars>>

-----------------------------------------------------------------------------
(* handleMouseMove *)

(* newPoints[dragState.pointIndex] = {x, y} on a copy of r.points: replaces *)
(* an element, or appends when the index is the length.                     *)
SetPoint(points, index, pos) ==
    IF index < Len(points)
    THEN [points EXCEPT ![index + 1] = pos]
    ELSE Append(points, pos)

(* The dragged ROI with its isConfirmed flag left as it was. *)
DraggedROIKeepsFlag(r, ds, pos) ==
    [r EXCEPT
       !.points = SetPoint(r.points, ds.pointIndex, pos),
       !.measurements =
           [present |-> TRUE,
            length |-> calculateLongestDistance(
                           SetPoint(r.points, ds.pointIndex, pos)),
            huValue |-> r.measurements.huValue]]

(* The dragged ROI with the length it had before the move. *)
DraggedROIKeepsLength(r, ds, pos) ==
    [r EXCEPT
       !.points = SetPoint(r.points, ds.pointIndex, pos),
       !.isConfirmed = TRUE]

(* The object the map callback returns for the dragged ROI. *)
DraggedROI(r, ds, pos) ==
    [r EXCEPT
       !.points = SetPoint(r.points, ds.pointIndex, pos),
       !.isConfirmed = TRUE,
       !.measurements =
           [present |-> TRUE,
            length |-> calculateLongestDistance(
                           SetPoint(r.points, ds.pointIndex, pos)),
            huValue |-> r.measurements.huValue]]

(* A map that puts the dragged ROI back when no ROI carries the id. *)
DragMapUpserts(prev, ds, pos) ==
    IF \E i \in 1 .. Len(prev) : prev[i].id = ds.roiId
    THEN [i \in 1 .. Len(prev) |->
             IF prev[i].id = ds.roiId THEN DraggedROI(prev[i], ds, pos)
             ELSE prev[i]]
    ELSE Append(prev, ROI(ds.roiId, "path", <<pos>>, "Doctor ROI", TRUE,
                          Meas(0, Undef)))

(* prev.map(r => r.id === dragState.roiId ? ... : r) *)
DragMap(prev, ds, pos) ==
    [i \in 1 .. Len(prev) |->
        IF prev[i].id = ds.roiId THEN DraggedROI(prev[i], ds, pos)
        ELSE prev[i]]

(* An index beyond the length leaves a hole in newPoints, and              *)
(* calculateLongestDistance then reads .x of undefined: a TypeError.       *)
DragThrows(prev, ds) ==
    \E i \in 1 .. Len(prev) :
        prev[i].id = ds.roiId /\ ds.pointIndex > Len(prev[i].points)

(* setPan({ x: e.clientX - panStart.x, y: e.clientY - panStart.y }) *)
PanTo(e) == Pt(e.clientX - panStart.x, e.clientY - panStart.y)

(* A drawing move that appends for the rect tool as well. *)
DrawMoveAppends(points, pos) ==
    IF tool \in {"pencil", "rect"} THEN Append(points, pos) ELSE points

(* The accumulated points after a drawing move. *)
DrawMove(points, pos) ==
    IF tool = "pencil" THEN Append(points, pos)
    ELSE IF tool = "rect" THEN <<points[1], pos>>
    ELSE points

handleMouseMove(e) ==
    /\ Mounted
    /\ IF isPanning
       THEN /\ pan' = PanTo(e)
            /\ UNCHANGED <<rois, currentPoints, crashed>>
       ELSE IF dragState.active
       THEN /\ IF DragThrows(rois, dragState)
               THEN crashed' = TRUE /\ rois' = rois
               ELSE crashed' = FALSE
                    /\ rois' = DragMap(rois, dragState, getMousePos(e))
            /\ UNCHANGED <<pan, currentPoints>>
       ELSE IF ~isDrawing
       THEN UNCHANGED <<pan, rois, currentPoints, crashed>>
       ELSE /\ tool = "pencil" => Len(currentPoints) < MaxPts
            /\ currentPoints' = DrawMove(currentPoints, getMousePos(e))
            /\ UNCHANGED <<pan, rois, crashed>>
    /\ ev' = Event("move", getMousePos(e), "")
    /\ g' = [g EXCEPT !.moves = Min(g.moves + 1, MaxPts), !.B = getMousePos(e)]
    /\ steps' = steps + 1
    /\ UNCHANGED <<tool, isDrawing, brightness, contrast, invert, zoom,
                   dragState, isPanning, panStart, rect, callVars,
                   renderVars, propVars,
                   appVars>>

-----------------------------------------------------------------------------
(* handleMouseUp *)

(* The two corners kept as they are, not expanded. *)
RectPolygonCornersOnly(p1, p2) == <<Pt(p1.x, p1.y), Pt(p2.x, p2.y)>>

(* The four corners listed column by column instead of around the box. *)
RectPolygonColumns(p1, p2) ==
    <<Pt(p1.x, p1.y), Pt(p1.x, p2.y), Pt(p2.x, p1.y), Pt(p2.x, p2.y)>>

(* The 4-point polygon of the two corners (lines 144-149). *)
RectPolygon(p1, p2) ==
    <<Pt(p1.x, p1.y), Pt(p2.x, p1.y), Pt(p2.x, p2.y), Pt(p1.x, p2.y)>>

(* finalPoints with the rectangle expanded from a single point too. *)
FinalPointsFromOne(t, points) ==
    IF t = "rect" /\ Len(points) >= 1
    THEN RectPolygon(points[1], points[Len(points)])
    ELSE points

(* finalPoints (lines 140-150). *)
FinalPoints(t, points) ==
    IF t = "rect" /\ Len(points) >= 2
    THEN RectPolygon(points[1], points[Len(points)])
    ELSE points

(* A new ROI left unconfirmed. *)
NewROIUnconfirmed(id, finalPoints, hu) ==
    ROI(id, "path", finalPoints, "Doctor ROI", FALSE,
        Meas(calculateLongestDistance(finalPoints), hu))

(* newROI (lines 154-164); id and hu stand for the two Math.random draws. *)
NewROI(id, finalPoints, hu) ==
    ROI(id, "path", finalPoints, "Doctor ROI", TRUE,
        Meas(calculateLongestDistance(finalPoints), hu))

(* The new ROI put in front of the list. *)
AddROIFirst(list, roi) == <<roi>> \o list

(* setRois([...rois, newROI]) *)
AddROI(list, roi) == Append(list, roi)

(* Whether the pointer-up reaches setRois (line 166). *)
Commits ==
    /\ ~isPanning
    /\ ~dragState.active
    /\ isDrawing
    /\ Len(FinalPoints(tool, currentPoints)) >= 2

handleMouseUp(id, hu) ==
    /\ Mounted
    /\ IF isPanning
       THEN /\ isPanning' = FALSE
            /\ UNCHANGED <<dragState, isDrawing, rois, currentPoints, tool>>
       ELSE IF dragState.active
       THEN /\ dragState' = NoDrag
            /\ UNCHANGED <<isPanning, isDrawing, rois, currentPoints, tool>>
       ELSE IF ~isDrawing
       THEN UNCHANGED <<isPanning, dragState, isDrawing, rois, currentPoints,
                        tool>>
       ELSE /\ isDrawing' = FALSE
            /\ IF Len(FinalPoints(tool, currentPoints)) < 2
               THEN UNCHANGED <<rois, currentPoints, tool>>
               ELSE /\ Len(rois) < MaxRois
                    /\ rois' = AddROI(rois,
                                 NewROI(id, FinalPoints(tool, currentPoints),
                                        hu))
                    /\ currentPoints' = << >>
                    /\ tool' = "select"
            /\ UNCHANGED <<isPanning, dragState>>
    /\ ev' = Event("up", g.B, IF Commits THEN id ELSE "")
    /\ g' = [g EXCEPT !.ups = Min(g.ups + 1, 2)]
    /\ steps' = steps + 1
    /\ UNCHANGED <<brightness, contrast, invert, zoom, pan, panStart, rect,
                   crashed, callVars, renderVars, propVars,
                   appVars>>

-----------------------------------------------------------------------------
(* deleteROI, the tool buttons, the view controls *)

(* The filter with its test inverted: keeps the ROIs with that id. *)
RemoveByIdInverted(list, id) == SelectSeq(list, LAMBDA r : r.id = id)

(* rois.filter(r => r.id !== id) *)
RemoveById(list, id) == SelectSeq(list, LAMBDA r : r.id # id)

deleteROI(id) ==
    /\ Mounted
    /\ rois' = RemoveById(rois, id)
    /\ ev' = Event("delete", Pt(0, 0), id)
    /\ g' = Interleave(tool)
    /\ steps' = steps + 1
    /\ UNCHANGED <<tool, isDrawing, currentPoints, brightness, contrast,
                   invert, zoom, pan, dragState, isPanning, panStart, rect,
                   crashed, callVars, renderVars, propVars,
                   appVars>>

(* The reduction stopping one ROI short of the end of the list. *)
RECURSIVE BurdenReduceShort(_, _, _)
BurdenReduceShort(list, i, acc) ==
    IF i >= Len(list) THEN acc
    ELSE BurdenReduceShort(list, i + 1,
             acc + (IF list[i].measurements.present
                       /\ list[i].measurements.length # Undef
                    THEN list[i].measurements.length
                    ELSE 0))

(* rois.reduce((acc, r) => acc + (r.measurements?.length || 0), 0) *)
RECURSIVE BurdenReduce(_, _, _)
BurdenReduce(list, i, acc) ==
    IF i > Len(list) THEN acc
    ELSE BurdenReduce(list, i + 1,
             acc + (IF list[i].measurements.present
                       /\ list[i].measurements.length # Undef
                    THEN list[i].measurements.length
                    ELSE 0))

totalTumorBurden == BurdenReduce(rois, 1, 0)

setTool(t) ==
    /\ Mounted
    /\ tool' = t
    /\ ev' = Event("tool", Pt(0, 0), t)
    /\ g' = Interleave(t)
    /\ steps' = steps + 1
    /\ UNCHANGED <<rois, isDrawing, currentPoints, brightness, contrast,
                   invert, zoom, pan, dragState, isPanning, panStart, rect,
                   crashed, callVars, renderVars, propVars,
                   appVars>>

(* The history of a view step names the kind of the event before it. *)
ViewStep(kind) ==
    /\ ev' = Event(kind, Pt(0, 0), ev.kind)
    /\ g' = Interleave(tool)
    /\ steps' = steps + 1
    /\ UNCHANGED <<rois, tool, isDrawing, currentPoints, dragState, isPanning,
                   panStart, rect, crashed, callVars, renderVars, propVars,
                   appVars>>

(* A zoom-in without the upper clamp. *)
zoomInUnclamped ==
    /\ Mounted
    /\ zoom' = zoom + 1
    /\ ViewStep("zoomIn")
    /\ UNCHANGED <<pan, brightness, contrast, invert>>

(* setZoom(z => Math.min(4, z + 0.5)) *)
zoomIn ==
    /\ Mounted
    /\ zoom' = Min(ZoomMax, zoom + 1)
    /\ ViewStep("zoomIn")
    /\ UNCHANGED <<pan, brightness, contrast, invert>>

(* setZoom(z => Math.max(1, z - 0.5)) *)
zoomOut ==
    /\ Mounted
    /\ zoom' = Max(ZoomMin, zoom - 1)
    /\ ViewStep("zoomOut")
    /\ UNCHANGED <<pan, brightness, contrast, invert>>

(* A reset that leaves the contrast as it is. *)
resetViewKeepsContrast ==
    /\ Mounted
    /\ brightness' = 100
    /\ invert' = FALSE
    /\ zoom' = 2
    /\ pan' = Pt(0, 0)
    /\ ViewStep("reset")
    /\ UNCHANGED contrast

(* A reset that also puts the store back to the list supplied at mount. *)
resetViewRestoresStore ==
    /\ Mounted
    /\ brightness' = 100
    /\ contrast' = 100
    /\ invert' = FALSE
    /\ zoom' = 2
    /\ pan' = Pt(0, 0)
    /\ rois' = initialROIs
    /\ ev' = Event("reset", Pt(0, 0), ev.kind)
    /\ g' = Interleave(tool)
    /\ steps' = steps + 1
    /\ UNCHANGED <<tool, isDrawing, currentPoints, dragState, isPanning,
                   panStart, rect, crashed, callVars, renderVars, propVars,
                   appVars>>

resetView ==
    /\ Mounted
    /\ brightness' = 100
    /\ contrast' = 100
    /\ invert' = FALSE
    /\ zoom' = 2
    /\ pan' = Pt(0, 0)
    /\ ViewStep("reset")

(* The values the brightness slider (min 50, max 150) is moved to. *)
BrightnessValues == {50, 100, 150}

(* The values the contrast slider (min 50, max 200) is moved to. *)
ContrastValues == {50, 100, 200}

(* onChange={(e) => setBrightness(Number(e.target.value))} *)
setBrightness(v) ==
    /\ Mounted
    /\ brightness' = v
    /\ ViewStep("brightness")
    /\ UNCHANGED <<zoom, pan, contrast, invert>>

(* onChange={(e) => setContrast(Number(e.target.value))} *)
setContrast(v) ==
    /\ Mounted
    /\ contrast' = v
    /\ ViewStep("contrast")
    /\ UNCHANGED <<zoom, pan, brightness, invert>>

(* onClick={() => setInvert(!invert)} *)
toggleInvert ==
    /\ Mounted
    /\ invert' = ~invert
    /\ ViewStep("invert")
    /\ UNCHANGED <<zoom, pan, brightness, contrast>>

-----------------------------------------------------------------------------
(* A direct call of calculateLongestDistance on a bounded point list. *)

GridPoints == {Pt(x, y) : x \in {0, 3, 4}, y \in {0, 3}}

PointLists ==
    UNION { [1 .. n -> GridPoints] : n \in 0 .. MaxPts }

InitDist ==
    /\ distIn \in PointLists
    /\ distOut = Undef
    /\ mapIn = NoCall
    /\ mapOut = NoCall
    /\ rois = << >>
    /\ tool = "select"
    /\ isDrawing = FALSE
    /\ currentPoints = << >>
    /\ brightness = 100
    /\ contrast = 100
    /\ invert = FALSE
    /\ zoom = 2
    /\ pan = Pt(0, 0)
    /\ dragState = NoDrag
    /\ isPanning = FALSE
    /\ panStart = Pt(0, 0)
    /\ rect = ContainerRect
    /\ crashed = FALSE
    /\ ev = Event("none", Pt(0, 0), "")
    /\ g = NoGesture
    /\ steps = 0
    /\ imageSrc = "scanA"
    /\ initialROIs = << >>
    /\ step = 2
    /\ isProcessing = FALSE
    /\ doctorConfirmedRois = << >>
    /\ onConfirmCalls = 0
    /\ reading = {}
    /\ closure = Snapshot

CallDistance ==
    /\ distOut = Undef
    /\ distOut' = calculateLongestDistance(distIn)
    /\ UNCHANGED <<distIn, mapIn, mapOut, editorVars, propVars, appVars,
                   renderVars>>

-----------------------------------------------------------------------------
(* A direct call of getMousePos on a container of any extent. *)

(* Boxes getBoundingClientRect can return, those of a container without    *)
(* width or without height included, and the unattached ref.               *)
Boxes ==
    { [attached |-> a, left |-> 20, top |-> 10, width |-> w, height |-> h] :
        a \in BOOLEAN, w \in {0, 200}, h \in {0, 100} }

Clients ==
    { [clientX |-> x, clientY |-> y] : x \in {20, 40, 120, 220},
                                       y \in {10, 20, 50, 110} }

InitMap ==
    /\ mapIn \in { [called |-> TRUE, e |-> e, box |-> b] :
                     e \in Clients, b \in Boxes }
    /\ mapOut = NoCall
    /\ distIn = << >>
    /\ distOut = 0
    /\ rois = << >>
    /\ tool = "select"
    /\ isDrawing = FALSE
    /\ currentPoints = << >>
    /\ brightness = 100
    /\ contrast = 100
    /\ invert = FALSE
    /\ zoom = 2
    /\ pan = Pt(0, 0)
    /\ dragState = NoDrag
    /\ isPanning = FALSE
    /\ panStart = Pt(0, 0)
    /\ rect = ContainerRect
    /\ crashed = FALSE
    /\ ev = Event("none", Pt(0, 0), "")
    /\ g = NoGesture
    /\ steps = 0
    /\ imageSrc = "scanA"
    /\ initialROIs = << >>
    /\ step = 2
    /\ isProcessing = FALSE
    /\ doctorConfirmedRois = << >>
    /\ onConfirmCalls = 0
    /\ reading = {}
    /\ closure = Snapshot

CallMap ==
    /\ mapOut = NoCall
    /\ mapOut' = getMousePosOf(mapIn.e, mapIn.box)
    /\ UNCHANGED <<mapIn, distIn, distOut, editorVars, propVars, appVars,
                   renderVars>>

-----------------------------------------------------------------------------
(* The confirm button and the case view's callback *)

(* The callback handed only the ROIs whose isConfirmed flag is set. *)
confirmOnlyConfirmed ==
    /\ Shown
    /\ onConfirmCalls < MaxConfirms
    /\ doctorConfirmedRois' = SelectSeq(rois, LAMBDA r : r.isConfirmed)
    /\ onConfirmCalls' = onConfirmCalls + 1
    /\ isProcessing' = TRUE
    /\ ev' = Event("confirm", Pt(0, 0), "")
    /\ g' = Interleave(tool)
    /\ UNCHANGED <<rois, tool, isDrawing, currentPoints, brightness, contrast,
                   invert, zoom, pan, dragState, isPanning, panStart, rect,
                   crashed, steps, callVars,
                   renderVars, propVars, step, reading>>

(* onClick={() => onConfirm(rois)}, with the case view's onConfirm:        *)
(* setDoctorConfirmedRois(confirmed); executeDiagnosis() up to its first   *)
(* await, which raises the processing overlay over the editor.             *)
confirm ==
    /\ Shown
    /\ onConfirmCalls < MaxConfirms
    /\ doctorConfirmedRois' = rois
    /\ onConfirmCalls' = onConfirmCalls + 1
    /\ isProcessing' = TRUE
    /\ ev' = Event("confirm", Pt(0, 0), "")
    /\ g' = Interleave(tool)
    /\ UNCHANGED <<rois, tool, isDrawing, currentPoints, brightness, contrast,
                   invert, zoom, pan, dragState, isPanning, panStart, rect,
                   crashed, steps, callVars,
                   renderVars, propVars, step, reading>>

(* executeDiagnosis after its awaits, on success: the answer's rois become *)
(* the proposals and the case view leaves step 2 (the editor unmounts).    *)
diagnosisDone(list) ==
    /\ isProcessing
    /\ step = 2
    /\ initialROIs' = list
    /\ step' = 3
    /\ isProcessing' = FALSE
    /\ ev' = Event("diagnosis", Pt(0, 0), "")
    /\ UNCHANGED <<editorVarsButEv, imageSrc, doctorConfirmedRois,
                   onConfirmCalls, reading, callVars, renderVars>>

(* executeDiagnosis on failure: the alert, then the overlay is lowered. *)
diagnosisFailed ==
    /\ isProcessing
    /\ step = 2
    /\ isProcessing' = FALSE
    /\ ev' = Event("failed", Pt(0, 0), "")
    /\ UNCHANGED <<editorVarsButEv, propVars, step, doctorConfirmedRois,
                   onConfirmCalls, reading, callVars, renderVars>>

-----------------------------------------------------------------------------
(* The case view around the editor: its steps and the image upload *)

(* A new ROIEditor instance is rendered: every useState takes its initial  *)
(* value, rois the initialROIs prop of that render.                        *)
EditorMount(list) ==
    /\ rois' = list
    /\ tool' = "select"
    /\ isDrawing' = FALSE
    /\ currentPoints' = << >>
    /\ brightness' = 100
    /\ contrast' = 100
    /\ invert' = FALSE
    /\ zoom' = ZoomMin
    /\ pan' = Pt(0, 0)
    /\ dragState' = NoDrag
    /\ isPanning' = FALSE
    /\ panStart' = Pt(0, 0)
    /\ rect' = ContainerRect
    /\ crashed' = FALSE
    /\ g' = NoGesture

(* The "next" button of step 1: setStep(2).  With an image the editor is   *)
(* rendered, without one the upload placeholder.                           *)
nextStep ==
    /\ step = 1
    /\ step' = 2
    /\ IF imageSrc # NoImage
       THEN EditorMount(initialROIs) /\ ev' = Event("mount", Pt(0, 0), "")
       ELSE UNCHANGED <<editorVarsButEv, ev>>
    /\ UNCHANGED <<steps, callVars, renderVars, propVars, isProcessing,
                   doctorConfirmedRois, onConfirmCalls, reading>>

(* handleFileChange: the placeholder's file input starts a FileReader. *)
handleFileChange(img) ==
    /\ step = 2
    /\ imageSrc = NoImage
    /\ img \notin reading
    /\ reading' = reading \cup {img}
    /\ UNCHANGED <<editorVars, callVars,
                   renderVars, propVars, step, isProcessing,
                   doctorConfirmedRois, onConfirmCalls>>

(* reader.onload: setImage(result).  In step 2 the first image replaces    *)
(* the placeholder by a new editor; a later one re-renders the editor that *)
(* is there with a new imageSrc, its state kept.                           *)
readerOnload(img) ==
    /\ img \in reading
    /\ reading' = reading \ {img}
    /\ imageSrc' = img
    /\ IF step = 2 /\ imageSrc = NoImage
       THEN /\ EditorMount(initialROIs)
            /\ ev' = Event("mount", Pt(0, 0), imageSrc)
       ELSE /\ ev' = Event("image", Pt(0, 0), imageSrc)
            /\ UNCHANGED editorVarsButEv
    /\ UNCHANGED <<steps, callVars,
                   renderVars, initialROIs, step, isProcessing,
                   doctorConfirmedRois, onConfirmCalls>>

-----------------------------------------------------------------------------

Next ==
    \/ \E e \in MouseEvents(rect) : handleMouseDown(e)
    \/ \E e \in MouseEvents(rect) : handleMouseMove(e)
    \/ \E id \in Ids, hu \in HuValues : handleMouseUp(id, hu)
    \/ \E id \in Ids : deleteROI(id)
    \/ \E t \in Tools : setTool(t)
    \/ zoomIn
    \/ zoomOut
    \/ resetView

Spec == Init /\ [][Next]_vars

SpecDist == InitDist /\ [][CallDistance]_vars

SpecMap == InitMap /\ [][CallMap]_vars

(* The view controls, from any state the view can have been brought to:    *)
(* the zoom buttons step through 1, 1.5, ..., 4, the sliders take every    *)
(* value of their range, and a pan gesture leaves any offset.              *)
InitView ==
    /\ imageSrc = "scanA"
    /\ initialROIs = << >>
    /\ rois = initialROIs
    /\ tool = "select"
    /\ isDrawing = FALSE
    /\ currentPoints = << >>
    /\ brightness \in BrightnessValues
    /\ contrast \in ContrastValues
    /\ invert \in BOOLEAN
    /\ zoom \in ZoomMin .. ZoomMax
    /\ pan \in {Pt(0, 0), Pt(80, 30)}
    /\ dragState = NoDrag
    /\ isPanning = FALSE
    /\ panStart = Pt(0, 0)
    /\ rect = ContainerRect
    /\ crashed = FALSE
    /\ ev = Event("none", Pt(0, 0), "")
    /\ g = NoGesture
    /\ steps = 0
    /\ distIn = << >>
    /\ distOut = 0
    /\ mapIn = NoCall
    /\ mapOut = NoCall
    /\ step = 2
    /\ isProcessing = FALSE
    /\ doctorConfirmedRois = << >>
    /\ onConfirmCalls = 0
    /\ reading = {}
    /\ closure = Snapshot

NextView ==
    \/ zoomIn
    \/ zoomOut
    \/ resetView
    \/ \E v \in BrightnessValues : setBrightness(v)
    \/ \E v \in ContrastValues : setContrast(v)
    \/ toggleInvert

SpecView == InitView /\ [][NextView]_vars

(* The case view from its first step, no image chosen yet, and up to the  *)
(* first use of the confirm button.                                        *)
InitCase ==
    /\ step = 1
    /\ imageSrc = NoImage
    /\ reading = {}
    /\ initialROIs = << >>
    /\ isProcessing = FALSE
    /\ doctorConfirmedRois = << >>
    /\ onConfirmCalls = 0
    /\ rois = << >>
    /\ tool = "select"
    /\ isDrawing = FALSE
    /\ currentPoints = << >>
    /\ brightness = 100
    /\ contrast = 100
    /\ invert = FALSE
    /\ zoom = ZoomMin
    /\ pan = Pt(0, 0)
    /\ dragState = NoDrag
    /\ isPanning = FALSE
    /\ panStart = Pt(0, 0)
    /\ rect = ContainerRect
    /\ crashed = FALSE
    /\ ev = Event("none", Pt(0, 0), "")
    /\ g = NoGesture
    /\ steps = 0
    /\ distIn = << >>
    /\ distOut = 0
    /\ mapIn = NoCall
    /\ mapOut = NoCall
    /\ closure = Snapshot

NextCase ==
    \/ Next
    \/ nextStep
    \/ \E img \in Images : handleFileChange(img)
    \/ \E img \in Images : readerOnload(img)

SpecCase == InitCase /\ [][NextCase]_vars

(* The editor opened on a list of proposals, with its confirm button. *)
NextConfirm ==
    \/ Next
    \/ confirm
    \/ \E list \in InitialLists : diagnosisDone(list)
    \/ diagnosisFailed

(* The editor is opened on a non-empty list of polygons. *)
InitConfirm ==
    /\ Init
    /\ Len(initialROIs) >= 1
    /\ \A i \in 1 .. Len(initialROIs) : Len(initialROIs[i].points) >= 2

SpecConfirm == InitConfirm /\ [][NextConfirm]_vars

-----------------------------------------------------------------------------
(* The handlers as the closures they are.  Every render creates the       *)
(* handlers anew over the state values of that render (closure); a        *)
(* handler run before the next render reads those values, while its       *)
(* updates are queued: a set call with a value replaces what is queued, a  *)
(* set call with a function is applied to it.  The state variables hold    *)
(* the state with the queued updates applied.                              *)

NearAt(z, p, pos) ==
    /\ Abs(p.x - pos.x) * z < 2 * HitNumerator
    /\ Abs(p.y - pos.y) * z < 2 * HitNumerator

HitsIn(list, z, pos) ==
    { h \in UNION { {i} \X (0 .. Len(list[i].points) - 1) :
                       i \in 1 .. Len(list) } :
        NearAt(z, list[h[1]].points[h[2] + 1], pos) }

FirstHitIn(list, z, pos) ==
    CHOOSE h \in HitsIn(list, z, pos) :
        \A k \in HitsIn(list, z, pos) :
            h[1] < k[1] \/ (h[1] = k[1] /\ h[2] <= k[2])

DownBranchIn(c, e) ==
    IF e.button = 1 \/ (c.tool = "select" /\ e.shiftKey) THEN "pan"
    ELSE IF c.tool = "select"
         THEN IF HitsIn(c.rois, c.zoom, getMousePos(e)) # {} THEN "drag"
              ELSE "miss"
         ELSE "draw"

(* The component function runs again: new handlers over the new state. *)
render ==
    /\ ~crashed
    /\ closure # Snapshot
    /\ closure' = Snapshot
    /\ UNCHANGED <<editorVars, callVars, propVars, appVars>>

handleMouseDownIn(c, e) ==
    /\ Mounted
    /\ IF e.button = 1 \/ (c.tool = "select" /\ e.shiftKey)
       THEN /\ isPanning' = TRUE
            /\ panStart' = Pt(e.clientX - c.pan.x, e.clientY - c.pan.y)
            /\ UNCHANGED <<dragState, isDrawing, currentPoints>>
       ELSE IF c.tool = "select"
       THEN /\ dragState' =
                 IF HitsIn(c.rois, c.zoom, getMousePos(e)) # {}
                 THEN [active |-> TRUE,
                       roiId |-> c.rois[FirstHitIn(c.rois, c.zoom,
                                                   getMousePos(e))[1]].id,
                       pointIndex |-> FirstHitIn(c.rois, c.zoom,
                                                 getMousePos(e))[2]]
                 ELSE dragState
            /\ UNCHANGED <<isPanning, panStart, isDrawing, currentPoints>>
       ELSE /\ isDrawing' = TRUE
            /\ currentPoints' = <<getMousePos(e)>>
            /\ UNCHANGED <<isPanning, panStart, dragState>>
    /\ ev' = Event("down", getMousePos(e), "")
    /\ g' = [branch |-> DownBranchIn(c, e), tool |-> c.tool,
             A |-> getMousePos(e), B |-> getMousePos(e), moves |-> 0,
             idle |-> ~isPanning /\ ~dragState.active,
             toolChanged |-> FALSE, interleaved |-> FALSE, ups |-> 0,
             pan0 |-> pan]
    /\ steps' = steps + 1
    /\ UNCHANGED <<rois, tool, brightness, contrast, invert, zoom, pan, rect,
                   crashed, callVars, renderVars, propVars, appVars>>

handleMouseMoveIn(c, e) ==
    /\ Mounted
    /\ IF c.isPanning
       THEN /\ pan' = Pt(e.clientX - c.panStart.x, e.clientY - c.panStart.y)
            /\ UNCHANGED <<rois, currentPoints, crashed>>
       ELSE IF c.dragState.active
       THEN /\ IF DragThrows(rois, c.dragState)
               THEN crashed' = TRUE /\ rois' = rois
               ELSE crashed' = FALSE
                    /\ rois' = DragMap(rois, c.dragState, getMousePos(e))
            /\ UNCHANGED <<pan, currentPoints>>
       ELSE IF ~c.isDrawing
       THEN UNCHANGED <<pan, rois, currentPoints, crashed>>
       ELSE /\ c.tool = "pencil" => Len(c.currentPoints) < MaxPts
            /\ currentPoints' =
                  IF c.tool = "pencil"
                  THEN Append(c.currentPoints, getMousePos(e))
                  ELSE IF c.tool = "rect"
                  THEN <<c.currentPoints[1], getMousePos(e)>>
                  ELSE currentPoints
            /\ UNCHANGED <<pan, rois, crashed>>
    /\ ev' = Event("move", getMousePos(e), "")
    /\ g' = [g EXCEPT !.moves = Min(g.moves + 1, MaxPts), !.B = getMousePos(e)]
    /\ steps' = steps + 1
    /\ UNCHANGED <<tool, isDrawing, brightness, contrast, invert, zoom,
                   dragState, isPanning, panStart, rect, callVars, renderVars,
                   propVars, appVars>>

(* Whether the pointer-up built over c reaches setRois (line 166). *)
CommitsIn(c) ==
    /\ ~c.isPanning
    /\ ~c.dragState.active
    /\ c.isDrawing
    /\ Len(FinalPoints(c.tool, c.currentPoints)) >= 2

handleMouseUpIn(c, id, hu) ==
    /\ Mounted
    /\ IF c.isPanning
       THEN /\ isPanning' = FALSE
            /\ UNCHANGED <<dragState, isDrawing, rois, currentPoints, tool>>
       ELSE IF c.dragState.active
       THEN /\ dragState' = NoDrag
            /\ UNCHANGED <<isPanning, isDrawing, rois, currentPoints, tool>>
       ELSE IF ~c.isDrawing
       THEN UNCHANGED <<isPanning, dragState, isDrawing, rois, currentPoints,
                        tool>>
       ELSE /\ isDrawing' = FALSE
            /\ IF Len(FinalPoints(c.tool, c.currentPoints)) < 2
               THEN UNCHANGED <<rois, currentPoints, tool>>
               ELSE /\ Len(c.rois) < MaxRois
                    /\ rois' = AddROI(c.rois,
                                 NewROI(id,
                                        FinalPoints(c.tool, c.currentPoints),
                                        hu))
                    /\ currentPoints' = << >>
                    /\ tool' = "select"
            /\ UNCHANGED <<isPanning, dragState>>
    /\ ev' = Event("up", g.B, IF CommitsIn(c) THEN id ELSE "")
    /\ g' = [g EXCEPT !.ups = Min(g.ups + 1, 2)]
    /\ steps' = steps + 1
    /\ UNCHANGED <<brightness, contrast, invert, zoom, pan, panStart, rect,
                   crashed, callVars, renderVars, propVars, appVars>>

deleteROIIn(c, id) ==
    /\ Mounted
    /\ rois' = RemoveById(c.rois, id)
    /\ ev' = Event("delete", Pt(0, 0), id)
    /\ g' = Interleave(tool)
    /\ steps' = steps + 1
    /\ UNCHANGED <<tool, isDrawing, currentPoints, brightness, contrast,
                   invert, zoom, pan, dragState, isPanning, panStart, rect,
                   crashed, callVars, renderVars, propVars, appVars>>

(* The editor opened on two proposals or on none. *)
InitBatch ==
    /\ Init
    /\ \A i \in 1 .. Len(initialROIs) : Len(initialROIs[i].points) >= 2

NextBatch ==
    \/ \E e \in MouseEvents(rect) : handleMouseDownIn(closure, e)
    \/ \E e \in MouseEvents(rect) : handleMouseMoveIn(closure, e)
    \/ \E id \in Ids, hu \in HuValues : handleMouseUpIn(closure, id, hu)
    \/ \E id \in Ids : deleteROIIn(closure, id)
    \/ \E t \in Tools : setTool(t)
    \/ render

SpecBatch == InitBatch /\ [][NextBatch]_vars

(* The editor with its store and all its display controls. *)
NextDisplay ==
    \/ Next
    \/ \E v \in BrightnessValues : setBrightness(v)
    \/ \E v \in ContrastValues : setContrast(v)
    \/ toggleInvert

SpecDisplay == InitConfirm /\ [][NextDisplay]_vars

-----------------------------------------------------------------------------
(* Selectors used by the properties *)

Range(f) == {f[i] : i \in DOMAIN f}

SetMin(S) == CHOOSE m \in S : \A n \in S : m <= n

SetMax(S) == CHOOSE m \in S : \A n \in S : m >= n

(* The bounding box of a non-empty point list. *)
BBox(points) ==
    [x1 |-> SetMin({p.x : p \in Range(points)}),
     x2 |-> SetMax({p.x : p \in Range(points)}),
     y1 |-> SetMin({p.y : p \in Range(points)}),
     y2 |-> SetMax({p.y : p \in Range(points)})]

(* Twice the signed area of a polygon (shoelace sum).  With the screen's y *)
(* axis pointing down, a positive value is a clockwise polygon.            *)
Shoelace(points) ==
    LET n == Len(points)
        Term(i) == LET p == points[i]
                       q == points[(i % n) + 1]
                   IN  p.x * q.y - q.x * p.y
        RECURSIVE Sum(_)
        Sum(i) == IF i > n THEN 0 ELSE Term(i) + Sum(i + 1)
    IN  Sum(1)

Last(list) == list[Len(list)]

-----------------------------------------------------------------------------
(* C1: at every zoom and pan, a pointer event placed where the image spot  *)
(* q is drawn is mapped by getMousePos to q.                                *)
C1_SpotMapsToItself ==
    \A q \in Spots : OnScreen(q) => getMousePos(RenderedAt(q)) = q

-----------------------------------------------------------------------------
(* Gestures, as recorded by the history variables *)

(* The last event handled was the first pointer-up after a pointer-down. *)
JustEnded == ev.kind = "up" /\ g.ups = 1

(* The gesture began in the draw branch with the given tool, with neither  *)
(* a pan nor a vertex drag in progress, and the tool was not changed.      *)
DrawGesture(t) ==
    /\ g.branch = "draw"
    /\ g.tool = t
    /\ g.idle
    /\ ~g.toolChanged

RectGesture == DrawGesture("rect") /\ g.moves >= 1

-----------------------------------------------------------------------------
(* C3: a rect gesture from A to the last position B commits an ROI with    *)
(* exactly 4 points whose bounding box is                                  *)
(* [min(Ax,Bx), max(Ax,Bx)] x [min(Ay,By), max(Ay,By)].                    *)
C3_RectBoundingBox ==
    (JustEnded /\ RectGesture) =>
        /\ Len(rois) >= 1
        /\ Last(rois).id = ev.id
        /\ Last(rois).label = "Doctor ROI"
        /\ Len(Last(rois).points) = 4
        /\ BBox(Last(rois).points) =
              [x1 |-> Min(g.A.x, g.B.x), x2 |-> Max(g.A.x, g.B.x),
               y1 |-> Min(g.A.y, g.B.y), y2 |-> Max(g.A.y, g.B.y)]

(* The drag from (50,40) back to (10,10) has covered [10,50] x [10,40]. *)
C3_Witness ==
    /\ JustEnded
    /\ RectGesture
    /\ g.A = Pt(50, 40)
    /\ g.B = Pt(10, 10)
    /\ Len(rois) >= 1
    /\ BBox(Last(rois).points) = [x1 |-> 10, x2 |-> 50, y1 |-> 10, y2 |-> 40]

(* The points a rect gesture from A to B is said to commit. *)
CornerList(A, B) == <<Pt(A.x, A.y), Pt(B.x, A.y), Pt(B.x, B.y), Pt(A.x, B.y)>>

(* C4 as claimed: the committed polygon is                                 *)
(* [(x1,y1),(x2,y1),(x2,y2),(x1,y2)] and winds clockwise for every drag    *)
(* direction (down-right, down-left, up-right, up-left).                   *)
C4_AlwaysClockwise ==
    (JustEnded /\ RectGesture) =>
        /\ Len(rois) >= 1
        /\ Last(rois).points = CornerList(g.A, g.B)
        /\ (g.A.x # g.B.x /\ g.A.y # g.B.y) => Shoelace(Last(rois).points) > 0

(* C4 amended: the committed polygon starts at the pointer-down corner and *)
(* is [(x1,y1),(x2,y1),(x2,y2),(x1,y2)]; it winds clockwise when the drag  *)
(* goes down-right or up-left and counter-clockwise when it goes down-left *)
(* or up-right.                                                            *)
C4_WindingFollowsDrag ==
    (JustEnded /\ RectGesture) =>
        /\ Len(rois) >= 1
        /\ Last(rois).points = CornerList(g.A, g.B)
        /\ Last(rois).points[1] = g.A
        /\ Shoelace(Last(rois).points) > 0
              <=> (g.B.x - g.A.x) * (g.B.y - g.A.y) > 0
        /\ Shoelace(Last(rois).points) < 0
              <=> (g.B.x - g.A.x) * (g.B.y - g.A.y) < 0

(* A rect gesture dragged up and to the right has committed a              *)
(* counter-clockwise polygon.                                              *)
C4_Witness ==
    /\ JustEnded
    /\ RectGesture
    /\ g.B.x > g.A.x
    /\ g.B.y < g.A.y
    /\ Len(rois) >= 1
    /\ Shoelace(Last(rois).points) < 0

(* C5: a pointer-down in the draw branch (tool pencil or rect) followed    *)
(* at once by a pointer-up leaves the store as it was and raises no error; *)
(* the pointer-down itself does not touch the store either.                *)
C5_ClickCreatesNothing ==
    [][/\ ev'.kind = "down" => rois' = rois
       /\ (ev.kind = "down" /\ g.branch = "draw" /\ ev'.kind = "up") =>
             (rois' = rois /\ ~crashed')]_vars

(* Such a click has just ended. *)
C5_Witness ==
    /\ JustEnded
    /\ g.branch = "draw"
    /\ g.tool \in {"pencil", "rect"}
    /\ g.moves = 0
    /\ ~g.interleaved
    /\ ~isDrawing

(* C6: every ROI in the store has at least 2 points. *)
C6_AtLeastTwoPoints ==
    \A i \in 1 .. Len(rois) : Len(rois[i].points) >= 2

-----------------------------------------------------------------------------
(* The largest squared distance over all pairs of the points. *)
MaxPairSq(points) ==
    SetMax({0} \cup {DistSq(points[i], points[j]) : i, j \in DOMAIN points})

Triangle345 == <<Pt(0, 0), Pt(0, 3), Pt(4, 0)>>

(* C7 as claimed: the result is the largest pairwise distance times 3.5,   *)
(* that is (2 * result)^2 = 49 * (largest squared distance).               *)
C7_ExactlyScaledMaximum ==
    distOut # Undef => 4 * distOut * distOut = 49 * MaxPairSq(distIn)

(* C7 amended: the result is the largest pairwise distance times 3.5,      *)
(* rounded down to a whole number; 17 for [(0,0),(0,3),(4,0)] and 0 for    *)
(* fewer than 2 points.                                                    *)
C7_FlooredScaledMaximum ==
    distOut # Undef =>
        /\ distOut >= 0
        /\ 4 * distOut * distOut <= 49 * MaxPairSq(distIn)
        /\ 49 * MaxPairSq(distIn) < 4 * (distOut + 1) * (distOut + 1)
        /\ Len(distIn) < 2 => distOut = 0
        /\ distIn = Triangle345 => distOut = 17

(* The 3-4-5 triangle has been measured as 17. *)
C7_Witness == distIn = Triangle345 /\ distOut = 17

-----------------------------------------------------------------------------
LengthOrZero(r) ==
    IF r.measurements.present /\ r.measurements.length # Undef
    THEN r.measurements.length
    ELSE 0

RECURSIVE SumLengths(_)
SumLengths(list) ==
    IF Len(list) = 0 THEN 0
    ELSE LengthOrZero(list[1]) + SumLengths(SubSeq(list, 2, Len(list)))

(* The list without every entry carrying the id, in the same order. *)
RECURSIVE Without(_, _)
Without(list, id) ==
    IF Len(list) = 0 THEN << >>
    ELSE LET rest == Without(SubSeq(list, 2, Len(list)), id)
         IN  IF list[1].id = id THEN rest ELSE <<list[1]>> \o rest

(* C8: the total burden is always the sum of measurements.length over the  *)
(* ROIs in the store (0 for an ROI without a length), and after a delete   *)
(* it is the sum over the ROIs that remain.                                *)
C8_BurdenIsSum ==
    /\ [](totalTumorBurden = SumLengths(rois))
    /\ [][ev'.kind = "delete" =>
             totalTumorBurden' = SumLengths(Without(rois, ev'.id))]_vars

(* Of the ROIs with lengths 10 and 15 the first was deleted: 15 is left. *)
C8_Witness ==
    /\ ev.kind = "delete"
    /\ ev.id = "a"
    /\ Len(rois) = 1
    /\ rois[1].measurements.length = 15
    /\ totalTumorBurden = 15

-----------------------------------------------------------------------------
(* The step is a pointer-move handled in the vertex-drag branch for the    *)
(* ROI id, and its updater did not throw.                                  *)
DragMoveOn(id) ==
    /\ ev'.kind = "move"
    /\ ~isPanning
    /\ dragState.active
    /\ dragState.roiId = id
    /\ ~crashed'

-----------------------------------------------------------------------------
(* C10: a delete removes the ROI carrying the id and no ROI with another   *)
(* id, keeps the order of the rest, changes nothing when the id is not in  *)
(* the store, and changes nothing when repeated.                           *)
C10_DeleteIdempotent ==
    [][ev'.kind = "delete" =>
         /\ rois' = Without(rois, ev'.id)
         /\ \A j \in 1 .. Len(rois') : rois'[j].id # ev'.id
         /\ Len(rois') =
               Len(rois) - Cardinality({i \in 1 .. Len(rois) :
                                           rois[i].id = ev'.id})
         /\ (\A i \in 1 .. Len(rois) : rois[i].id # ev'.id) => rois' = rois
         /\ (ev.kind = "delete" /\ ev.id = ev'.id) => rois' = rois
         /\ RemoveById(rois', ev'.id) = rois']_vars

(* The ROI "a" was deleted from a store holding "a" and "b": "b" is left. *)
C10_Witness ==
    /\ ev.kind = "delete"
    /\ ev.id = "a"
    /\ Len(rois) = 1
    /\ rois[1].id = "b"
    /\ rois[1].label = "Lesion B"

-----------------------------------------------------------------------------
(* C11: the ids of the ROIs in the store are pairwise distinct, and the id *)
(* given to a newly committed ROI is the id of no other ROI in the store.  *)
C11_IdsUnique ==
    /\ \A i, j \in 1 .. Len(rois) : i # j => rois[i].id # rois[j].id
    /\ (ev.kind = "up" /\ ev.id # "") =>
          \A i \in 1 .. Len(rois) - 1 : rois[i].id # ev.id

-----------------------------------------------------------------------------
InRange(p) == p.x \in 0 .. 100 /\ p.y \in 0 .. 100

(* C12: in every state every point of every ROI in the store, supplied or *)
(* written by a draw or a vertex drag, has both coordinates in [0,100].    *)
C12_PointsInRange ==
    \A i \in 1 .. Len(rois) :
        \A k \in 1 .. Len(rois[i].points) : InRange(rois[i].points[k])

-----------------------------------------------------------------------------
(* C13: each confirm action invokes the callback exactly once, with the    *)
(* store's whole list in store order (confirmed and unconfirmed ROIs), and *)
(* leaves the store, the tool, the gesture state and the view state as     *)
(* they were; the callback is invoked by no other step.                    *)
C13_ConfirmPassesStore ==
    [][/\ (ev'.kind = "confirm" /\ ~isProcessing) =>
            /\ onConfirmCalls' = onConfirmCalls + 1
            /\ doctorConfirmedRois' = rois
            /\ UNCHANGED <<rois, tool, isDrawing, currentPoints, dragState,
                           isPanning, panStart, zoom, pan, brightness,
                           contrast, invert>>
       /\ (onConfirmCalls' # onConfirmCalls
             \/ doctorConfirmedRois' # doctorConfirmedRois) =>
            ev'.kind = "confirm"]_vars

(* Confirmed after a draw: the callback has received the two unconfirmed   *)
(* proposals followed by the confirmed ROI just committed.                 *)
C13_Witness ==
    /\ ev.kind = "confirm"
    /\ onConfirmCalls = 1
    /\ Len(rois) = 3
    /\ doctorConfirmedRois = rois
    /\ ~rois[1].isConfirmed
    /\ rois[1].label = "Lesion A"
    /\ rois[3].isConfirmed
    /\ rois[3].label = "Doctor ROI"

-----------------------------------------------------------------------------
ZeroExtent(box) == box.width = 0 \/ box.height = 0

(* C14: for a container of zero width or zero height getMousePos returns   *)
(* the origin {0,0}: it does not fail and yields no non-finite coordinate. *)
C14_ZeroExtentMapsToOrigin ==
    (mapOut # NoCall /\ ZeroExtent(mapIn.box)) =>
        mapOut = [x |-> Finite(0), y |-> Finite(0)]

-----------------------------------------------------------------------------
(* C15: 1 <= zoom <= 4 in every state; zoom-in adds 0.5 and stops at 4,    *)
(* zoom-out subtracts 0.5 and stops at 1, reset returns to 1, and no other *)
(* view control changes zoom.                                              *)
C15_ZoomClamped ==
    /\ [](zoom \in ZoomMin .. ZoomMax)
    /\ [][/\ ev'.kind = "zoomIn" =>
               zoom' = (IF zoom + 1 > ZoomMax THEN ZoomMax ELSE zoom + 1)
          /\ ev'.kind = "zoomOut" =>
               zoom' = (IF zoom - 1 < ZoomMin THEN ZoomMin ELSE zoom - 1)
          /\ ev'.kind = "reset" => zoom' = ZoomMin
          /\ ev'.kind \in {"brightness", "contrast", "invert"} =>
               zoom' = zoom]_vars

(* Two zoom-ins in a row have ended at 4: the second was at 3.5 or at 4.   *)
C15_Witness ==
    /\ ev.kind = "zoomIn"
    /\ ev.id = "zoomIn"
    /\ zoom = ZoomMax

-----------------------------------------------------------------------------
ViewIsDefault ==
    /\ zoom = ZoomMin
    /\ pan = Pt(0, 0)
    /\ brightness = 100
    /\ contrast = 100
    /\ invert = FALSE

(* C16: after a reset zoom is 1, pan is (0,0), brightness and contrast are *)
(* 100 and invert is off, whatever the view was before; a reset following  *)
(* a reset changes nothing of the view.                                    *)
C16_ResetRestoresDefaults ==
    /\ [](ev.kind = "reset" => ViewIsDefault)
    /\ [][(ev.kind = "reset" /\ ev'.kind = "reset") =>
             UNCHANGED <<zoom, pan, brightness, contrast, invert>>]_vars

(* A reset has followed a reset. *)
C16_Witness ==
    /\ ev.kind = "reset"
    /\ ev.id = "reset"
    /\ ViewIsDefault

-----------------------------------------------------------------------------
(* The vertex drag in progress refers to an ROI that is no longer stored. *)
DragOfVanished ==
    /\ dragState.active
    /\ \A i \in 1 .. Len(rois) : rois[i].id # dragState.roiId

(* C17: once the dragged ROI has been deleted, every pointer-move of the   *)
(* drag leaves the store as it is and raises no error, and the pointer-up  *)
(* that ends the drag (no pan and no draw being in progress) leaves the    *)
(* machine idle with the store unchanged.                                  *)
C17_DragOfDeletedIsNoOp ==
    [][/\ (DragOfVanished /\ ev'.kind = "move") =>
            /\ rois' = rois
            /\ ~crashed'
            /\ dragState' = dragState
       /\ (DragOfVanished /\ ev'.kind = "up" /\ ~isPanning /\ ~isDrawing) =>
            /\ rois' = rois
            /\ ~crashed'
            /\ ~dragState'.active
            /\ ~isPanning'
            /\ ~isDrawing']_vars

(* The first vertex of proposal "a" was grabbed, "a" was deleted, the      *)
(* pointer moved and was released: only proposal "b" is stored, as it was, *)
(* and no gesture is in progress.                                          *)
C17_Witness ==
    /\ JustEnded
    /\ g.branch = "drag"
    /\ g.idle
    /\ g.interleaved
    /\ g.moves >= 1
    /\ g.A = Pt(10, 10)
    /\ g.B = Pt(50, 40)
    /\ Len(initialROIs) = 2
    /\ initialROIs[1].id = "a"
    /\ initialROIs[2].id = "b"
    /\ rois = <<initialROIs[2]>>
    /\ ~dragState.active
    /\ ~isPanning
    /\ ~isDrawing

-----------------------------------------------------------------------------
(* C18: when the editor on the screen has been given a new image, by being *)
(* mounted for it or by a new imageSrc, the ROIs drawn on the image before *)
(* are gone and the store is the initial list supplied with the image.     *)
C18_NewImageResetsStore ==
    (Shown /\ ev.kind \in {"mount", "image"}) => rois = initialROIs

-----------------------------------------------------------------------------
(* sub is list with some of its entries left out, the others in order. *)
RECURSIVE IsSubseq(_, _)
IsSubseq(sub, list) ==
    IF sub = << >> THEN TRUE
    ELSE IF list = << >> THEN FALSE
    ELSE IF Head(sub) = Head(list) /\ IsSubseq(Tail(sub), Tail(list))
         THEN TRUE
         ELSE IsSubseq(sub, Tail(list))

IdSeq(list) == [i \in 1 .. Len(list) |-> list[i].id]

(* C19: the store keeps insertion order.  A commit puts the new ROI after  *)
(* all the ROIs already stored and leaves those as they are; a vertex drag *)
(* keeps every ROI at its position; a delete leaves the remaining ROIs in  *)
(* the order they had; no other step touches the list.                     *)
C19_InsertionOrderKept ==
    [][/\ (ev'.kind = "up" /\ ev'.id # "") =>
            /\ Len(rois') = Len(rois) + 1
            /\ SubSeq(rois', 1, Len(rois)) = rois
            /\ rois'[Len(rois')].id = ev'.id
       /\ ev'.kind = "move" => IdSeq(rois') = IdSeq(rois)
       /\ ev'.kind = "delete" => IsSubseq(rois', rois)
       /\ ~(ev'.kind \in {"move", "delete"}
              \/ (ev'.kind = "up" /\ ev'.id # "")) => rois' = rois]_vars

(* A drawn ROI has been committed behind the two proposals, which are      *)
(* where and what they were.                                               *)
C19_Witness ==
    /\ ev.kind = "up"
    /\ ev.id # ""
    /\ Len(initialROIs) = 2
    /\ Len(rois) = 3
    /\ rois[1] = initialROIs[1]
    /\ rois[2] = initialROIs[2]
    /\ rois[3].label = "Doctor ROI"
    /\ rois[3].id = ev.id

-----------------------------------------------------------------------------
(* Both coordinates of p differ from those of q by less than 3 / zoom      *)
(* (zoom in halves: by less than 6 / zoom).                                *)
Within(p, q) ==
    \A d \in {p.x - q.x, q.x - p.x, p.y - q.y, q.y - p.y} :
        d * zoom < 2 * HitNumerator

(* Vertex k of the ROI at position i comes before vertex m of the ROI at   *)
(* position j: list order, then point order.                               *)
Before(i, k, j, m) == i < j \/ (i = j /\ k < m)

(* The stored vertices, as <<ROI position, point position>>. *)
Vertices ==
    UNION { {i} \X (1 .. Len(rois[i].points)) : i \in 1 .. Len(rois) }

(* C20: a pointer-down with the select tool and no pan modifier starts the *)
(* drag of the first vertex, in list order and then point order, that is   *)
(* within 3 / zoom of the mapped pointer position on both axes; when there *)
(* is none, the store, the accumulated points and the drag state are       *)
(* unchanged, and an idle machine stays idle.                              *)
C20_FirstVertexWithinThreshold ==
    [][(ev'.kind = "down" /\ g'.branch \in {"drag", "miss"}) =>
         /\ rois' = rois
         /\ currentPoints' = currentPoints
         /\ isDrawing' = isDrawing
         /\ isPanning' = isPanning
         /\ \A v \in Vertices :
              (/\ Within(rois[v[1]].points[v[2]], ev'.pos)
               /\ \A w \in Vertices :
                    Before(w[1], w[2], v[1], v[2]) =>
                       ~Within(rois[w[1]].points[w[2]], ev'.pos)) =>
                 /\ g'.branch = "drag"
                 /\ dragState' = [active |-> TRUE, roiId |-> rois[v[1]].id,
                                  pointIndex |-> v[2] - 1]
         /\ (\A v \in Vertices :
               ~Within(rois[v[1]].points[v[2]], ev'.pos)) =>
                 /\ g'.branch = "miss"
                 /\ dragState' = dragState
                 /\ (~isPanning /\ ~isDrawing /\ ~dragState.active) =>
                       (~isPanning' /\ ~isDrawing' /\ ~dragState'.active)]_vars

(* At zoom 1.5 the threshold is 2: a press on (12,8) passes over the first *)
(* ROI's vertex (10,10), which is exactly 2 away, and grabs the first      *)
(* vertex of the second ROI.                                               *)
C20_Witness ==
    /\ ev.kind = "down"
    /\ ev.pos = Pt(12, 8)
    /\ g.branch = "drag"
    /\ zoom = 3
    /\ Len(rois) = 2
    /\ rois[1].points[1] = Pt(10, 10)
    /\ rois[2].points[1] = Pt(12, 8)
    /\ dragState = [active |-> TRUE, roiId |-> rois[2].id, pointIndex |-> 0]
    /\ rois[1].id # rois[2].id

(* At zoom 1 the threshold is 3: the same press grabs the vertex (10,10)   *)
(* of the first ROI, though the second ROI has a vertex under the pointer. *)
C20_WitnessFirstWins ==
    /\ ev.kind = "down"
    /\ ev.pos = Pt(12, 8)
    /\ zoom = 2
    /\ Len(rois) = 2
    /\ rois[2].points[1] = Pt(12, 8)
    /\ dragState = [active |-> TRUE, roiId |-> rois[1].id, pointIndex |-> 0]
    /\ rois[1].id # rois[2].id

-----------------------------------------------------------------------------
(* The device pixel of the pointer event mapped to the image spot q. *)
ClientOf(q) ==
    Pt(rect.left + (q.x * rect.width) \div 100,
       rect.top + (q.y * rect.height) \div 100)

(* The last pointer-down had the pan modifier and no pointer-up followed. *)
PanGesture == g.branch = "pan" /\ g.ups = 0

(* C21: a pointer-down with the pan modifier (middle button, or shift with *)
(* the select tool) sets isPanning and starts neither a draw nor a vertex  *)
(* drag; after each pointer-move of that gesture pan is the pan at the     *)
(* pointer-down plus (pointer position - down position), so a move to the  *)
(* down position leaves pan as it was at the pointer-down.                 *)
C21_PanIsRelative ==
    /\ [][(ev'.kind = "down" /\ g'.branch = "pan") =>
             /\ isPanning'
             /\ UNCHANGED <<isDrawing, dragState, currentPoints, pan, rois>>
             /\ panStart' = Pt(ClientOf(ev'.pos).x - pan.x,
                               ClientOf(ev'.pos).y - pan.y)]_vars
    /\ []((PanGesture /\ ev.kind = "move") =>
             /\ isPanning
             /\ pan = Pt(g.pan0.x + ClientOf(g.B).x - ClientOf(g.A).x,
                         g.pan0.y + ClientOf(g.B).y - ClientOf(g.A).y)
             /\ g.B = g.A => pan = g.pan0)

(* A pan begun with the view already panned has moved it further. *)
C21_Witness ==
    /\ PanGesture
    /\ ev.kind = "move"
    /\ g.pan0 # Pt(0, 0)
    /\ g.A = Pt(10, 10)
    /\ g.B = Pt(50, 40)
    /\ pan = Pt(g.pan0.x + 80, g.pan0.y + 30)

-----------------------------------------------------------------------------
(* The machine is drawing and in no other gesture. *)
DrawingOnly == isDrawing /\ ~isPanning /\ ~dragState.active

(* C22: in a draw gesture the pointer-down at p0 leaves the accumulated    *)
(* list [p0]; each move to p appends p for the pencil tool and leaves      *)
(* [p0, p] for the rect tool; so after the moves p1..pn the list is        *)
(* [p0,...,pn] (n+1 points, event order) for pencil and [p0,pn] for rect.  *)
C22_AccumulatedPoints ==
    /\ [][/\ (ev'.kind = "down" /\ g'.branch = "draw") =>
               isDrawing' /\ currentPoints' = <<ev'.pos>>
          /\ (ev'.kind = "move" /\ DrawingOnly /\ tool = "pencil") =>
               currentPoints' = currentPoints \o <<ev'.pos>>
          /\ (ev'.kind = "move" /\ DrawingOnly /\ tool = "rect") =>
               currentPoints' = <<currentPoints[1], ev'.pos>>]_vars
    /\ []((g.ups = 0 /\ ev.kind \in {"down", "move"}) =>
             /\ DrawGesture("pencil") =>
                  /\ Len(currentPoints) = g.moves + 1
                  /\ currentPoints[1] = g.A
                  /\ currentPoints[Len(currentPoints)] = g.B
             /\ DrawGesture("rect") =>
                  currentPoints =
                     (IF g.moves = 0 THEN <<g.A>> ELSE <<g.A, g.B>>))

(* A pencil stroke through three different spots, in the order visited. *)
C22_Witness ==
    /\ DrawGesture("pencil")
    /\ ev.kind = "move"
    /\ g.moves = 2
    /\ currentPoints = <<Pt(50, 40), Pt(10, 10), Pt(12, 8)>>

(* A rect drag over two moves holds the start and the last position. *)
C22_WitnessRect ==
    /\ DrawGesture("rect")
    /\ ev.kind = "move"
    /\ g.moves = 2
    /\ currentPoints = <<Pt(50, 40), Pt(12, 8)>>

-----------------------------------------------------------------------------
(* The step is a pointer-move handled in the vertex-drag branch. *)
DragMove == ev'.kind = "move" /\ ~isPanning /\ dragState.active

(* The positions in the store of the ROIs carrying the dragged id. *)
DragTargets == { i \in 1 .. Len(rois) : rois[i].id = dragState.roiId }

(* C23: a pointer-move of a vertex drag replaces exactly the point at      *)
(* pointIndex of the ROI with the dragged id by the mapped position: the   *)
(* ROI keeps its point count, its other points, its id, label, kind and    *)
(* intensity value, and every other ROI of the store is unchanged.         *)
C23_DragReplacesOnePoint ==
    [][DragMove =>
         /\ ~crashed'
         /\ Cardinality(DragTargets) <= 1
         /\ Len(rois') = Len(rois)
         /\ \A i \in 1 .. Len(rois) :
              IF i \in DragTargets
              THEN /\ dragState.pointIndex < Len(rois[i].points)
                   /\ rois'[i].points =
                         [rois[i].points EXCEPT
                            ![dragState.pointIndex + 1] = ev'.pos]
                   /\ rois'[i].id = rois[i].id
                   /\ rois'[i].label = rois[i].label
                   /\ rois'[i].type = rois[i].type
                   /\ rois'[i].measurements.huValue =
                         rois[i].measurements.huValue
              ELSE rois'[i] = rois[i]]_vars

-----------------------------------------------------------------------------
(* The point list a pointer-up in Drawing works with: the rectangle of the *)
(* first and last accumulated point for the rect tool, else the list.      *)
FinalOf(t, points) ==
    IF t = "rect" /\ Len(points) >= 2
    THEN CornerList(points[1], points[Len(points)])
    ELSE points

(* C24: a pointer-up in Drawing with at least 2 final points adds exactly  *)
(* one ROI, at the end of the store, whose points are the final point      *)
(* list and whose isConfirmed is true, and sets the tool to select; and    *)
(* from a state with the select tool and no drawing in progress (the state *)
(* a commit leaves) no step but a tool selection leaves that state or      *)
(* adds an ROI.                                                            *)
C24_CommitThenSelect ==
    [][/\ (ev'.kind = "up" /\ DrawingOnly
             /\ Len(FinalOf(tool, currentPoints)) >= 2) =>
            /\ Len(rois') = Len(rois) + 1
            /\ SubSeq(rois', 1, Len(rois)) = rois
            /\ Last(rois').points = FinalOf(tool, currentPoints)
            /\ Last(rois').isConfirmed
            /\ tool' = "select"
            /\ ~isDrawing'
       /\ (tool = "select" /\ ~isDrawing /\ ev'.kind # "tool") =>
            /\ tool' = "select"
            /\ ~isDrawing'
            /\ Len(rois') <= Len(rois)]_vars

(* A pencil stroke of two points was committed and the tool is select. *)
C24_Witness ==
    /\ JustEnded
    /\ DrawGesture("pencil")
    /\ g.moves = 1
    /\ ev.id # ""
    /\ tool = "select"
    /\ ~isDrawing
    /\ Len(rois) >= 1
    /\ Last(rois).points = <<g.A, g.B>>
    /\ Last(rois).isConfirmed

-----------------------------------------------------------------------------
(* The step handles an event of the given kind (a render is no event). *)
Handled(kind) == ev'.kind = kind /\ steps' = steps + 1

(* C25: every handler acts on the state the handler before it has left,    *)
(* also when no render came in between: a pencil move appends its point    *)
(* to the points accumulated so far, a delete removes the ROI from the     *)
(* store as it is, and a commit appends the new ROI to the store as it is. *)
C25_NoUpdateLost ==
    [][/\ (Handled("move") /\ DrawingOnly /\ tool = "pencil") =>
            currentPoints' = Append(currentPoints, ev'.pos)
       /\ Handled("delete") =>
            rois' = SelectSeq(rois, LAMBDA r : r.id # ev'.id)
       /\ (Handled("up") /\ DrawingOnly
             /\ Len(FinalOf(tool, currentPoints)) >= 2) =>
            /\ Len(rois') = Len(rois) + 1
            /\ SubSeq(rois', 1, Len(rois)) = rois
            /\ Last(rois').points = FinalOf(tool, currentPoints)]_vars

-----------------------------------------------------------------------------
(* C26: after a commit the new ROI's measurements.length, and after a      *)
(* pointer-move of a vertex drag the length of every ROI the move has      *)
(* rewritten, is calculateLongestDistance of the ROI's points as they are  *)
(* after the step.                                                         *)
C26_LengthRecomputed ==
    [][/\ (ev'.kind = "up" /\ ev'.id # "") =>
            /\ Last(rois').measurements.present
            /\ Last(rois').measurements.length =
                  calculateLongestDistance(Last(rois').points)
       /\ (DragMove /\ ~crashed') =>
            \A i \in DragTargets :
               /\ rois'[i].measurements.present
               /\ rois'[i].measurements.length =
                     calculateLongestDistance(rois'[i].points)]_vars

(* Vertex 0 of the first proposal, whose supplied length was 10, has been  *)
(* dragged from (10,10) to (12,8): the diagonal to (50,40) gives 173.      *)
C26_Witness ==
    /\ ev.kind = "move"
    /\ g.branch = "drag"
    /\ dragState.active
    /\ ~crashed
    /\ Len(rois) >= 1
    /\ rois[1].id = dragState.roiId
    /\ rois[1].points = <<Pt(12, 8), Pt(50, 40)>>
    /\ rois[1].measurements.length = 173

-----------------------------------------------------------------------------
(* The kinds of the steps of the display controls. *)
ViewKinds == {"zoomIn", "zoomOut", "reset", "brightness", "contrast", "invert"}

(* The step is handled by the pan branch of a pointer handler. *)
PanStep ==
    \/ ev'.kind = "down" /\ g'.branch = "pan"
    \/ ev'.kind \in {"move", "up"} /\ isPanning

(* C27: zoom-in, zoom-out, reset, brightness, contrast and invert steps,   *)
(* and every step of a pan gesture (the pan-modifier down, which sets      *)
(* isPanning, the moves, which keep it, and the up) leave the store as it  *)
(* is; a step that changes the store is a commit, a vertex-drag move or a  *)
(* delete.                                                                 *)
C27_ViewStepsKeepStore ==
    [][/\ ev'.kind \in ViewKinds => rois' = rois
       /\ PanStep => rois' = rois
       /\ (ev'.kind = "down" /\ g'.branch = "pan") => isPanning'
       /\ (ev'.kind = "move" /\ isPanning) => isPanning'
       /\ rois' # rois =>
            \/ ev'.kind = "up" /\ ev'.id # ""
            \/ DragMove
            \/ ev'.kind = "delete"]_vars

(* A whole pan gesture after a brightness change, over two proposals. *)
C27_Witness ==
    /\ JustEnded
    /\ g.branch = "pan"
    /\ g.moves = 1
    /\ ~g.interleaved
    /\ ~isPanning
    /\ pan # Pt(0, 0)
    /\ brightness = 150
    /\ Len(rois) = 2
    /\ rois = initialROIs

-----------------------------------------------------------------------------
(* C28: after every pointer-up, whatever events came before it (two        *)
(* pointer-downs in a row included), no gesture is in progress: isDrawing  *)
(* is false, dragState is null and isPanning is false; and a pointer-move  *)
(* handled right after a pointer-up changes neither the store, the         *)
(* accumulated points nor the pan offset.                                  *)
C28_IdleAfterEveryUp ==
    /\ [](ev.kind = "up" =>
             ~isDrawing /\ ~dragState.active /\ ~isPanning)
    /\ [][(ev.kind = "up" /\ ev'.kind = "move") =>
             UNCHANGED <<rois, currentPoints, pan>>]_vars

-----------------------------------------------------------------------------
(* The last pointer-down began a draw with no pan or vertex drag left      *)
(* over, whatever became of the tool selection since.                      *)
DrawBegun == g.branch = "draw" /\ g.idle

(* C29: a draw gesture behaves according to the tool that was active at    *)
(* its pointer-down, also when the tool selection changes before the       *)
(* pointer-up: begun with pencil it accumulates one point per move and     *)
(* commits them, begun with rect it holds its two corners and commits      *)
(* their 4-point rectangle.                                                *)
C29_ToolFixedAtDown ==
    /\ (DrawBegun /\ g.ups = 0) =>
          /\ g.tool = "pencil" =>
               /\ Len(currentPoints) = g.moves + 1
               /\ currentPoints[1] = g.A
               /\ currentPoints[Len(currentPoints)] = g.B
          /\ g.tool = "rect" =>
               currentPoints = (IF g.moves = 0 THEN <<g.A>> ELSE <<g.A, g.B>>)
    /\ (DrawBegun /\ JustEnded /\ g.moves >= 1) =>
          /\ ev.id # ""
          /\ Len(rois) >= 1
          /\ g.tool = "pencil" =>
               /\ Len(Last(rois).points) = g.moves + 1
               /\ Last(rois).points[1] = g.A
               /\ Last(rois).points[g.moves + 1] = g.B
          /\ g.tool = "rect" => Last(rois).points = CornerList(g.A, g.B)

-----------------------------------------------------------------------------
(* The gesture flags that are set. *)
FlagsSet ==
    (IF isDrawing THEN {"isDrawing"} ELSE {})
       \cup (IF dragState.active THEN {"dragState"} ELSE {})
       \cup (IF isPanning THEN {"isPanning"} ELSE {})

(* C30: in every state reached by pointer-down, pointer-move, pointer-up,  *)
(* tool-selection and delete events, at most one of isDrawing,             *)
(* dragState # null and isPanning holds.                                   *)
C30_GestureStatesExclusive == Cardinality(FlagsSet) <= 1

====
